---------------------------- MODULE Spec2Model ----------------------------
(***************************************************************************)
(* Reading tracker (app/page.tsx): the Home component's TrackerState, its  *)
(* mutation handlers and the derived statistics.                           *)
(*                                                                         *)
(* Encodings.                                                              *)
(*  - A text field is a sequence of one-character strings, so that trim    *)
(*    and parseInt are computed, not assumed.                              *)
(*  - A JavaScript number that may be NaN is <<>> (NaN) or <<n>>.          *)
(*  - A date string is <<d>>, the "YYYY-MM-DD" text of day number d, or    *)
(*    <<>>, the empty string a cleared date input yields.                  *)
(*  - Instants are counted in hours; DayLen hours stand for 86400000 ms.   *)
(*  - The zone's offset from UTC is tz, and tz + dst[2] from the instant    *)
(*    dst[1] on when the zone changes its clocks (dst = <<>>: it does not). *)
(*  - Ids are positive integers drawn from a counter (safeId never         *)
(*    repeats); EmptyId is the empty string of an unset select.            *)
(*  - Every handler runs against the state of the latest render: React     *)
(*    commits and re-renders after each discrete event, and runs the       *)
(*    passive effects before the next one.  A handler's action therefore   *)
(*    includes the render and the effects its setState calls bring about.  *)
(*    The effects of the first commit are steps of their own.              *)
(*  - A value in localStorage is a record: absent, text that JSON.parse    *)
(*    rejects, or text given by the JSON value it parses to.               *)
(*  - Book.targetDate, Book.notes and ReadingSession.note are carried      *)
(*    verbatim and read by no operation; they are left out.                *)
(***************************************************************************)
EXTENDS Integers, Sequences, FiniteSets, TLC

VARIABLES
    state,        \* useState<TrackerState>: [books, sessions, preferences]
    sessionForm,  \* useState<SessionFormState>: the bookId field
    error,        \* useState<string | null>
    nextId,       \* the next value safeId() returns
    now,          \* the instant new Date() returns, in hours
    tz,           \* the zone's offset from UTC, in hours
    dst,          \* the zone's change of clocks: <<>> or <<instant, hours>>
    hydrated,     \* useState(false): the value of the latest render
    storage,      \* window.localStorage's item under STORAGE_KEY
    phase,        \* how far the effects of the first commit have run
    queued        \* the updates setState calls of an effect have queued

vars == <<state, sessionForm, error, nextId, now, tz, dst,
          hydrated, storage, phase, queued>>

-----------------------------------------------------------------------------
(* Bounds of the model *)

MaxIds == 3        \* ids safeId() hands out in one run (books and sessions)
MaxFormIds == 2    \* the same, in the validation specification
MaxStatsIds == 4   \* the same, in the statistics specification
MaxStoreIds == 4   \* the last id handed out in the store specification
MaxDateIds == 4    \* ids handed out in the session-date specification
BaseDay == 10      \* the UTC day number the clock is set in

(* Program constants *)

DayLen == 24                 \* hours in 86400000 ms
EmptyId == 0                 \* sessionForm.bookId: ""
DefaultWeeklyMinutesGoal == 420
DefaultDailyPagesGoal == 30
WeekBack == 6                \* base.getDate() - 6

null == "null"
NaN == <<>>

-----------------------------------------------------------------------------
(* Numbers and text *)

Min(a, b) == IF a <= b THEN a ELSE b
Max(a, b) == IF a >= b THEN a ELSE b

IsNaN(v) == v = NaN

clamp(value, min, max) == Min(Max(value, min), max)

RECURSIVE sum(_)
sum(values) ==
    IF values = <<>> THEN 0 ELSE Head(values) + sum(Tail(values))

RECURSIVE TrimStart(_)
TrimStart(s) ==
    IF s # <<>> /\ Head(s) = " " THEN TrimStart(Tail(s)) ELSE s

RECURSIVE TrimEnd(_)
TrimEnd(s) ==
    IF s # <<>> /\ s[Len(s)] = " " THEN TrimEnd(SubSeq(s, 1, Len(s) - 1)) ELSE s

trim(s) == TrimEnd(TrimStart(s))

DigitChars == <<"0", "1", "2", "3", "4", "5", "6", "7", "8", "9">>

IsDigit(c) == \E i \in 1..Len(DigitChars) : DigitChars[i] = c

DigitValue(c) == (CHOOSE i \in 1..Len(DigitChars) : DigitChars[i] = c) - 1

\* The value of the longest prefix of digits of s, continuing from acc;
\* seen tells whether a digit has been read.
RECURSIVE ParseDigits(_, _, _)
ParseDigits(s, acc, seen) ==
    IF s # <<>> /\ IsDigit(Head(s))
    THEN ParseDigits(Tail(s), acc * 10 + DigitValue(Head(s)), TRUE)
    ELSE IF seen THEN <<acc>> ELSE NaN

\* Number.parseInt(text, 10): leading white space skipped, an optional sign,
\* then digits up to the first other character; NaN when there is no digit.
parseInt(text) ==
    LET t == TrimStart(text)
        neg == t # <<>> /\ Head(t) = "-"
        signed == t # <<>> /\ (Head(t) = "-" \/ Head(t) = "+")
        digits == ParseDigits(IF signed THEN Tail(t) ELSE t, 0, FALSE)
    IN IF IsNaN(digits) THEN NaN
       ELSE IF neg THEN <<0 - digits[1]>> ELSE digits

-----------------------------------------------------------------------------
(* Dates *)

\* new Date(value).getTime() of a date string: UTC midnight of the day, or
\* NaN for the empty string.
DateTime(date) == IF date = <<>> THEN NaN ELSE <<date[1] * DayLen>>

\* instant.toISOString().slice(0, 10): the UTC calendar date of an instant.
IsoDate(t) == <<t \div DayLen>>

todayIso == IsoDate(now)

-----------------------------------------------------------------------------
(* TrackerState *)

DEFAULT_STATE ==
    [ books |-> <<>>,
      sessions |-> <<>>,
      preferences |-> [ weeklyMinutesGoal |-> DefaultWeeklyMinutesGoal,
                        dailyPagesGoal |-> DefaultDailyPagesGoal,
                        showCompleted |-> TRUE ] ]

SeqToSet(s) == { s[i] : i \in 1..Len(s) }

BookIds(st) == { st.books[i].id : i \in 1..Len(st.books) }

\* booksById.get(id), for an id that is a key of the map
booksById(st, id) ==
    st.books[CHOOSE i \in 1..Len(st.books) : st.books[i].id = id]


-----------------------------------------------------------------------------
(* localStorage, the hydration effect and the persistence effect *)

\* getItem on a key that is not there
NoItem == [ kind |-> "absent" ]

\* text that is no JSON
BrokenText == [ kind |-> "broken" ]

\* the text of a JSON value
JsonText(value) == [ kind |-> "json", value |-> value ]

JsonNull == [ type |-> "null" ]
JsonObject(fields) == [ type |-> "object", fields |-> fields ]

\* JSON.stringify(state): the object's own keys, each with its value; no
\* field of the state modelled is undefined or NaN.
stringify(st) == JsonText(JsonObject(st))

\* { ...a, ...b }: the keys of both, b's value where both have the key
Spread(a, b) ==
    [ k \in (DOMAIN a) \cup (DOMAIN b) |-> IF k \in DOMAIN b THEN b[k] ELSE a[k] ]

\* MergeParsed with the stored preferences taken whole.
MergeParsedShallow(parsed) == Spread(DEFAULT_STATE, parsed)

\* The object the hydration effect hands to setState for a parsed object.
MergeParsed(parsed) ==
    LET top == Spread(DEFAULT_STATE, parsed)
        prefs == IF "preferences" \in DOMAIN parsed
                 THEN Spread(DEFAULT_STATE.preferences, parsed.preferences)
                 ELSE DEFAULT_STATE.preferences
    IN [ top EXCEPT !.preferences = prefs ]

\* The updates the hydration effect queues on reading raw: setState of the
\* merged object when raw is the text of an object; nothing when the key is
\* absent, and nothing when JSON.parse throws or the value parsed is null
\* (parsed.preferences throws), which the catch swallows; setHydrated(true)
\* in every case.
HydrationUpdates(raw) ==
    IF raw.kind = "json" /\ raw.value.type = "object"
    THEN << [ set |-> "state", value |-> MergeParsed(raw.value.fields) ],
            [ set |-> "hydrated", value |-> TRUE ] >>
    ELSE << [ set |-> "hydrated", value |-> TRUE ] >>

\* PersistenceEffect without the test of hydrated.
PersistenceEffectUnguarded(seenHydrated, seenState, item) == stringify(seenState)

\* The persistence effect of a render that saw seenHydrated and seenState:
\* the item it leaves in the store that held item.
PersistenceEffect(seenHydrated, seenState, item) ==
    IF ~seenHydrated THEN item ELSE stringify(seenState)

\* The value a queue of updates leaves a useState cell at.
RECURSIVE ApplyUpdates(_, _, _)
ApplyUpdates(updates, cell, value) ==
    IF updates = <<>> THEN value
    ELSE ApplyUpdates(Tail(updates), cell,
                      IF Head(updates).set = cell THEN Head(updates).value
                      ELSE value)

-----------------------------------------------------------------------------
(* Default target effect (useEffect on state.books) *)

\* The effect's setSessionForm updater: keeps a bookId that names a book,
\* otherwise selects the first book; does nothing while there is no book.
DefaultTargetEffect(st, sf) ==
    IF Len(st.books) = 0 THEN sf
    ELSE IF sf.bookId # EmptyId /\ sf.bookId \in BookIds(st) THEN sf
    ELSE [sf EXCEPT !.bookId = st.books[1].id]

-----------------------------------------------------------------------------
(* handleBookSubmit *)

BookTitleMissing(title, author) == trim(title) = <<>> \/ trim(author) = <<>>

\* BookPagesInvalid with the bound off by one: a book of 0 pages passes.
BookPagesInvalidBelowZero(totalPages) == IsNaN(totalPages) \/ totalPages[1] < 0

BookPagesInvalid(totalPages) == IsNaN(totalPages) \/ totalPages[1] <= 0

newBook(id, title, author, totalPages) ==
    [ id |-> id,
      title |-> trim(title),
      author |-> trim(author),
      totalPages |-> totalPages,
      currentPage |-> 0,
      status |-> "not-started",
      startedAt |-> todayIso ]

\* The outcome of submitting the book form holding title, author and the
\* text totalPagesText, when safeId() would return id: the new state, session
\* form and error, and whether a book was created.
handleBookSubmit(st, sf, title, author, totalPagesText, id) ==
    LET totalPages == parseInt(totalPagesText)
    IN IF BookTitleMissing(title, author)
       THEN [ state |-> st, sessionForm |-> sf, created |-> FALSE,
              error |-> "Title and author are both required." ]
       ELSE IF BookPagesInvalid(totalPages)
       THEN [ state |-> st, sessionForm |-> sf, created |-> FALSE,
              error |-> "Total pages must be a positive number." ]
       ELSE LET book == newBook(id, title, author, totalPages[1])
                st2 == [st EXCEPT !.books = <<book>> \o st.books]
                sf2 == [sf EXCEPT !.bookId = book.id]
            IN [ state |-> st2,
                 sessionForm |-> DefaultTargetEffect(st2, sf2),
                 created |-> TRUE,
                 error |-> null ]

-----------------------------------------------------------------------------
(* handleSessionSubmit *)

\* Array.prototype.sort with (a, b) => time(b) - time(a).  A NaN result
\* counts as 0, so a session with an unparseable date compares equal to all.
SortKey(session) == DateTime(session.date)

SessionBefore(a, b) ==
    ~IsNaN(SortKey(a)) /\ ~IsNaN(SortKey(b)) /\ SortKey(a)[1] > SortKey(b)[1]

\* The comparator is consistent unless an unparseable date meets two
\* different parseable ones.
ComparatorConsistent(list) ==
    \/ \A i \in 1..Len(list) : ~IsNaN(SortKey(list[i]))
    \/ \A i, j \in 1..Len(list) :
          (~IsNaN(SortKey(list[i])) /\ ~IsNaN(SortKey(list[j])))
              => SortKey(list[i]) = SortKey(list[j])

\* x placed after every element that does not sort after it (stable).
RECURSIVE InsertSorted(_, _)
InsertSorted(sorted, x) ==
    IF sorted = <<>> THEN <<x>>
    ELSE IF SessionBefore(x, Head(sorted)) THEN <<x>> \o sorted
    ELSE <<Head(sorted)>> \o InsertSorted(Tail(sorted), x)

RECURSIVE StableSort(_)
StableSort(list) ==
    IF list = <<>> THEN <<>>
    ELSE InsertSorted(StableSort(SubSeq(list, 1, Len(list) - 1)), list[Len(list)])

\* list without its i-th element
RemoveAt(list, i) == SubSeq(list, 1, i - 1) \o SubSeq(list, i + 1, Len(list))

RECURSIVE ListPermutations(_)
ListPermutations(list) ==
    IF list = <<>> THEN { <<>> }
    ELSE UNION { { <<list[i]>> \o rest : rest \in ListPermutations(RemoveAt(list, i)) } :
                 i \in 1..Len(list) }

\* The orders sort may leave the list in: the stable descending order for a
\* consistent comparator, an implementation-defined one otherwise.
SortOutcomes(list) ==
    IF ComparatorConsistent(list) THEN { StableSort(list) }
    ELSE ListPermutations(list)

clampedPages(book, pages) ==
    clamp(pages, 1, Max(book.totalPages - book.currentPage, pages))

\* SessionBook with the page count left unclamped.
SessionBookUnclamped(item, pagesRead) ==
    [ item EXCEPT
        !.currentPage = item.currentPage + pagesRead,
        !.status = IF item.currentPage + pagesRead >= item.totalPages
                   THEN "completed" ELSE "in-progress" ]

\* The updater's replacement of the owning book.
SessionBook(item, pagesRead) ==
    [ item EXCEPT
        !.currentPage = clamp(item.currentPage + pagesRead, 0, item.totalPages),
        !.status = IF item.currentPage + pagesRead >= item.totalPages
                   THEN "completed" ELSE "in-progress" ]

newSession(id, book, date, pagesRead, minutes) ==
    [ id |-> id, bookId |-> book.id, date |-> date,
      pagesRead |-> pagesRead, minutes |-> minutes ]

\* SessionFailure with the message never set.
SessionFailureSilent(st, sf, message) ==
    { [ state |-> st, sessionForm |-> sf, created |-> FALSE, error |-> null ] }

SessionFailure(st, sf, message) ==
    { [ state |-> st, sessionForm |-> sf, created |-> FALSE, error |-> message ] }

\* The outcomes of submitting the session form holding date and the texts
\* pagesText and minutesText, when safeId() would return id.
handleSessionSubmit(st, sf, date, pagesText, minutesText, id) ==
    LET pages == parseInt(pagesText)
        minutes == parseInt(minutesText)
    IN IF sf.bookId = EmptyId
       THEN SessionFailure(st, sf, "Please pick a book before logging a session.")
       ELSE IF sf.bookId \notin BookIds(st)
       THEN SessionFailure(st, sf, "Selected book no longer exists.")
       ELSE IF IsNaN(pages) \/ pages[1] <= 0
       THEN SessionFailure(st, sf, "Pages read must be a positive number.")
       ELSE IF IsNaN(minutes) \/ minutes[1] <= 0
       THEN SessionFailure(st, sf, "Minutes must be a positive number.")
       ELSE LET book == booksById(st, sf.bookId)
                stored == clampedPages(book, pages[1])
                session == newSession(id, book, date, stored, minutes[1])
                books2 == [ i \in 1..Len(st.books) |->
                              IF st.books[i].id = book.id
                              THEN SessionBook(st.books[i], stored)
                              ELSE st.books[i] ]
            IN { [ state |-> [st EXCEPT !.sessions = sorted, !.books = books2],
                   sessionForm |->
                       DefaultTargetEffect([st EXCEPT !.books = books2], sf),
                   created |-> TRUE,
                   error |-> null ] :
                 sorted \in SortOutcomes(<<session>> \o st.sessions) }

-----------------------------------------------------------------------------
(* updateBookProgress *)

\* ProgressBook with the value stored as given.
ProgressBookUnclamped(book, value) ==
    [ book EXCEPT
        !.currentPage = value,
        !.status = IF value >= book.totalPages THEN "completed"
                   ELSE IF value = 0 THEN "not-started"
                   ELSE "in-progress" ]

ProgressBook(book, value) ==
    [ book EXCEPT
        !.currentPage = clamp(value, 0, book.totalPages),
        !.status = IF value >= book.totalPages THEN "completed"
                   ELSE IF value = 0 THEN "not-started"
                   ELSE "in-progress" ]

\* updateBookProgress with the id not compared.
updateBookProgressAll(st, bookId, value) ==
    [ st EXCEPT !.books =
        [ i \in 1..Len(st.books) |-> ProgressBook(st.books[i], value) ] ]

updateBookProgress(st, bookId, value) ==
    [ st EXCEPT !.books =
        [ i \in 1..Len(st.books) |->
            IF st.books[i].id = bookId
            THEN ProgressBook(st.books[i], value)
            ELSE st.books[i] ] ]

-----------------------------------------------------------------------------
(* removeSession *)

RemovedBook(item, session) ==
    [ item EXCEPT
        !.currentPage =
            clamp(item.currentPage - session.pagesRead, 0, item.totalPages),
        !.status = IF item.currentPage - session.pagesRead <= 0
                   THEN "not-started" ELSE "in-progress" ]

SessionIds(st) == { st.sessions[i].id : i \in 1..Len(st.sessions) }

\* state.sessions.find(item => item.id === sessionId), for an id it finds
FindSession(st, sessionId) ==
    st.sessions[CHOOSE i \in 1..Len(st.sessions) : st.sessions[i].id = sessionId]

RECURSIVE FilterOutSession(_, _)
FilterOutSession(list, sessionId) ==
    IF list = <<>> THEN <<>>
    ELSE IF Head(list).id # sessionId
    THEN <<Head(list)>> \o FilterOutSession(Tail(list), sessionId)
    ELSE FilterOutSession(Tail(list), sessionId)

\* The setState updater, applied to prev for the session found.
RemoveUpdater(prev, session, sessionId) ==
    [ prev EXCEPT
        !.sessions = FilterOutSession(prev.sessions, sessionId),
        !.books =
            [ i \in 1..Len(prev.books) |->
                IF prev.books[i].id = session.bookId
                THEN RemovedBook(prev.books[i], session)
                ELSE prev.books[i] ] ]

\* removeSessionIn with a miss taken for the first session listed.
removeSessionInFirst(rendered, prev, sessionId) ==
    IF sessionId \in SessionIds(rendered)
    THEN RemoveUpdater(prev, FindSession(rendered, sessionId), sessionId)
    ELSE IF Len(rendered.sessions) = 0 THEN prev
    ELSE RemoveUpdater(prev, rendered.sessions[1], rendered.sessions[1].id)

\* removeSession as the handler of the render that showed the state
\* rendered, run when the state has become prev: the session is looked up in
\* rendered, the updater is applied to prev.
removeSessionIn(rendered, prev, sessionId) ==
    IF sessionId \notin SessionIds(rendered) THEN prev
    ELSE RemoveUpdater(prev, FindSession(rendered, sessionId), sessionId)

\* The handler of the latest render.
removeSession(st, sessionId) == removeSessionIn(st, st, sessionId)

-----------------------------------------------------------------------------
(* Preferences *)

toggleCompletedVisibility(st) ==
    [ st EXCEPT !.preferences.showCompleted = ~st.preferences.showCompleted ]

\* updateGoal with 0 let through.
updateGoalFromZero(st, field, value) ==
    IF IsNaN(value) \/ value[1] < 0 THEN st
    ELSE [ st EXCEPT !.preferences[field] = value[1] ]

updateGoal(st, field, value) ==
    IF IsNaN(value) \/ value[1] <= 0 THEN st
    ELSE [ st EXCEPT !.preferences[field] = value[1] ]

-----------------------------------------------------------------------------
(* stats (useMemo over state.books and state.sessions) *)

PagesOf(list) == [ i \in 1..Len(list) |-> list[i].pagesRead ]
MinutesOf(list) == [ i \in 1..Len(list) |-> list[i].minutes ]

totalPagesRead(st) == sum(PagesOf(st.sessions))
totalMinutes(st) == sum(MinutesOf(st.sessions))

\* Math.round(a / b), for a >= 0 and b > 0
RoundDiv(a, b) == (2 * a + b) \div (2 * b)

\* Math.round((a / b) * 10) / 10 counted in tenths, for a >= 0; NaN stands
\* for what a division by 0 gives (NaN or Infinity).
RoundTenths(a, b) == IF b = 0 THEN NaN ELSE <<RoundDiv(10 * a, b)>>

minutesPerPage(st) ==
    IF totalPagesRead(st) = 0 THEN <<0>>
    ELSE RoundTenths(totalMinutes(st), totalPagesRead(st))

\* The getTime() of the session dates that parse.
Timestamps(st) ==
    { DateTime(st.sessions[i].date)[1] :
        i \in { j \in 1..Len(st.sessions) : ~IsNaN(DateTime(st.sessions[j].date)) } }

\* totalDays with the span not counted from 1.
totalDaysSpan(st) ==
    IF Len(st.sessions) = 0 \/ Timestamps(st) = {} THEN 0
    ELSE LET first == CHOOSE t \in Timestamps(st) : \A u \in Timestamps(st) : t <= u
             last == CHOOSE t \in Timestamps(st) : \A u \in Timestamps(st) : t >= u
         IN RoundDiv(last - first, DayLen)

totalDays(st) ==
    IF Len(st.sessions) = 0 THEN 0
    ELSE IF Timestamps(st) = {} THEN 0
    ELSE LET first == CHOOSE t \in Timestamps(st) : \A u \in Timestamps(st) : t <= u
             last == CHOOSE t \in Timestamps(st) : \A u \in Timestamps(st) : t >= u
         IN Max(1, RoundDiv(last - first, DayLen) + 1)

averageDailyPages(st) ==
    IF totalPagesRead(st) = 0 \/ totalDays(st) = 0 THEN <<0>>
    ELSE RoundTenths(totalPagesRead(st), totalDays(st))

\* The zone's offset from UTC at instant t.
Offset(t) == IF dst # <<>> /\ t >= dst[1] THEN tz + dst[2] ELSE tz

\* The local date and time of instant t, as hours on the local calendar.
Wall(t) == t + Offset(t)

\* The instant of a local date and time: the earlier of two when clocks
\* were put back over it, and read with the offset before the change when
\* clocks were put forward over it.
Instant(wall) ==
    IF dst # <<>> /\ wall - tz >= dst[1] /\ wall - (tz + dst[2]) >= dst[1]
    THEN wall - (tz + dst[2])
    ELSE wall - tz

\* date.setDate(date.getDate() - n): the same local time n local days back.
LocalDaysBack(t, n) == Instant(Wall(t) - n * DayLen)

\* base.setHours(0, 0, 0, 0): the start of the local day an instant is in.
LocalMidnight(t) == Instant((Wall(t) \div DayLen) * DayLen)

\* new Date(), moved WeekBack local days back, at local midnight.
weekStart == LocalMidnight(LocalDaysBack(now, WeekBack))

\* new Date(session.date) >= weekStart; false for an unparseable date.
InWeek(session) ==
    ~IsNaN(DateTime(session.date)) /\ DateTime(session.date)[1] >= weekStart

\* list.filter(InWeek)
RECURSIVE FilterInWeek(_)
FilterInWeek(list) ==
    IF list = <<>> THEN <<>>
    ELSE IF InWeek(Head(list))
    THEN <<Head(list)>> \o FilterInWeek(Tail(list))
    ELSE FilterInWeek(Tail(list))

sessionsThisWeek(st) == FilterInWeek(st.sessions)
minutesThisWeek(st) == sum(MinutesOf(sessionsThisWeek(st)))
pagesThisWeek(st) == sum(PagesOf(sessionsThisWeek(st)))

SessionDays(st) == { st.sessions[i].date : i \in 1..Len(st.sessions) }

\* StreakLoop with the grace step not limited to the start of the walk.
RECURSIVE StreakLoopAnyGap(_, _, _)
StreakLoopAnyGap(days, current, counter) ==
    IF IsoDate(current) \in days
    THEN StreakLoopAnyGap(days, LocalDaysBack(current, 1), counter + 1)
    ELSE IF IsoDate(current - DayLen) \in days
    THEN StreakLoopAnyGap(days, LocalDaysBack(current, 1), counter)
    ELSE counter

\* The for (;;) loop from the pass with the cursor at instant current:
\* the key is the cursor's UTC date, the grace test looks 86400000 ms back,
\* and current.setDate(current.getDate() - 1) moves one local day back.
RECURSIVE StreakLoop(_, _, _)
StreakLoop(days, current, counter) ==
    IF IsoDate(current) \in days
    THEN StreakLoop(days, LocalDaysBack(current, 1), counter + 1)
    ELSE IF counter = 0 /\ IsoDate(current - DayLen) \in days
    THEN StreakLoop(days, LocalDaysBack(current, 1), counter)
    ELSE counter

uniqueDays(st) == Cardinality(SessionDays(st))

streak(st) ==
    IF Len(st.sessions) = 0 THEN 0
    ELSE StreakLoop(SessionDays(st), now, 0)

-----------------------------------------------------------------------------
(* What the user may type or pick *)

BookForm(title, author, totalPages) ==
    [ title |-> title, author |-> author, totalPages |-> totalPages ]

SessionForm(date, pagesRead, minutes) ==
    [ date |-> date, pagesRead |-> pagesRead, minutes |-> minutes ]

\* The forms submitted in the runs explored: forms that pass validation,
BookForms ==
    { BookForm(<<" ", "a", " ">>, <<"b">>, <<"1">>),
      BookForm(<<"a">>, <<"b", " ">>, <<"2", "x">>) }

SessionForms ==
    { SessionForm(<<BaseDay>>, <<"1">>, <<"7">>),
      SessionForm(<<BaseDay>>, <<" ", "2">>, <<"7">>) }

\* and, in the runs that explore validation, forms that fail it.
InvalidBookForms ==
    { BookForm(<<" ">>, <<"b">>, <<"1">>),
      BookForm(<<"a">>, <<>>, <<"1">>),
      BookForm(<<"a">>, <<"b">>, <<"0">>),
      BookForm(<<"a">>, <<"b">>, <<"x">>) }

InvalidSessionForms ==
    { SessionForm(<<BaseDay>>, <<"x">>, <<"7">>),
      SessionForm(<<BaseDay>>, <<"0">>, <<"7">>),
      SessionForm(<<BaseDay>>, <<"1">>, <<"-", "3">>),
      SessionForm(<<BaseDay>>, <<"1">>, <<>>) }

ProgressInputs == -1..3

GoalFields == { "weeklyMinutesGoal", "dailyPagesGoal" }

\* Number(event.target.value) of a goal slider, and values no slider sends.
GoalInputs == { NaN, <<0>>, <<60>> }

\* What an earlier visit may have left in the store: a book with a session,
StoredBook ==
    [ id |-> 1, title |-> <<"a">>, author |-> <<"b">>, totalPages |-> 2,
      currentPage |-> 1, status |-> "in-progress", startedAt |-> <<BaseDay - 1>> ]

StoredSession ==
    [ id |-> 2, bookId |-> 1, date |-> <<BaseDay - 1>>, pagesRead |-> 1,
      minutes |-> 7 ]

StoredPreferences ==
    [ weeklyMinutesGoal |-> 90, dailyPagesGoal |-> 10, showCompleted |-> FALSE ]

\* the first id safeId() hands out that the stored records do not hold,
FirstFreshId == 3

\* and the items found under the key: none, the empty string, text that is
\* no JSON, null, an empty object, a state without preferences, one whose
\* preferences lack the goals, one without books and sessions, a full one.
StoredItems ==
    { NoItem,
      [ kind |-> "empty" ],
      BrokenText,
      JsonText(JsonNull),
      JsonText(JsonObject(<<>>)),
      JsonText(JsonObject([ books |-> <<StoredBook>>,
                            sessions |-> <<StoredSession>> ])),
      JsonText(JsonObject([ books |-> <<StoredBook>>,
                            sessions |-> <<StoredSession>>,
                            preferences |-> [ showCompleted |-> FALSE ] ])),
      JsonText(JsonObject([ preferences |-> StoredPreferences ])),
      stringify([ books |-> <<StoredBook>>, sessions |-> <<StoredSession>>,
                  preferences |-> StoredPreferences ]) }

StoreBookForms == { BookForm(<<"a">>, <<"b">>, <<"2">>) }

StoreSessionForms == { SessionForm(<<BaseDay>>, <<"1">>, <<"7">>) }

\* The forms of the statistics runs: one book, sessions on the days around
\* today and the edges of the week window.
StatsBookForms == { BookForm(<<"a">>, <<"b">>, <<"2">>) }

StatsDays == { BaseDay + 1, BaseDay, BaseDay - 1, BaseDay - 2, BaseDay - 3,
               BaseDay - 6, BaseDay - 7 }

StatsSessionForms ==
    { SessionForm(<<d>>, <<"1">>, <<"7">>) : d \in StatsDays }

\* The session forms of the session-date runs: today, yesterday, and the
\* date input cleared.
DateSessionForms ==
    { SessionForm(date, <<"1">>, <<"7">>) :
        date \in { <<BaseDay>>, <<BaseDay - 1>>, <<>> } }

\* Hour of the UTC day and zone offset: late evening of the day before in a
\* western zone, noon in UTC, early morning of the day after in an eastern one.
Clocks == { <<2, -5>>, <<12, 0>>, <<21, 3>> }

\* Hour of the UTC day, zone offset and change of clocks: a zone that keeps
\* its clocks; the evening of the day a western zone put its clocks forward
\* at 02:00; the night after an eastern zone put its clocks back.
ZoneClocks ==
    { <<12, 0, <<>>>>,
      <<23, -5, <<BaseDay * DayLen + 7, 1>>>>,
      <<0, 1, <<BaseDay * DayLen - 5, -1>>>> }

-----------------------------------------------------------------------------
(* The state machine *)

\* The component mounted on an empty store: the first commit's effects have
\* run and the default state has been written.
Mounted ==
    /\ hydrated = TRUE
    /\ storage = stringify(DEFAULT_STATE)
    /\ phase = "ready"
    /\ queued = <<>>

Init ==
    /\ state = DEFAULT_STATE
    /\ sessionForm = [ bookId |-> EmptyId ]
    /\ error = null
    /\ nextId = 1
    /\ now = BaseDay * DayLen + 12
    /\ tz = 0
    /\ dst = <<>>
    /\ Mounted

\* Commit with the persistence effect run on hydration only.
CommitUnsaved ==
    /\ phase = "ready"
    /\ UNCHANGED <<hydrated, storage, phase, queued>>

\* The render and the persistence effect that follow a handler: the effect
\* runs when the render's state is a new one.
Commit ==
    /\ phase = "ready"
    /\ storage' = IF state' # state
                  THEN PersistenceEffect(hydrated, state', storage)
                  ELSE storage
    /\ UNCHANGED <<hydrated, phase, queued>>

\* The book form is submitted.
AddBook(forms, maxIds) ==
    \E form \in forms :
        LET r == handleBookSubmit(state, sessionForm, form.title, form.author,
                                  form.totalPages, nextId)
        IN /\ r.created => nextId <= maxIds
           /\ state' = r.state
           /\ sessionForm' = r.sessionForm
           /\ error' = r.error
           /\ nextId' = IF r.created THEN nextId + 1 ELSE nextId
           /\ UNCHANGED <<now, tz, dst>>
           /\ Commit

\* The session form is submitted.
LogSession(forms, maxIds) ==
    \E form \in forms :
        \E r \in handleSessionSubmit(state, sessionForm, form.date,
                                     form.pagesRead, form.minutes, nextId) :
           /\ r.created => nextId <= maxIds
           /\ state' = r.state
           /\ sessionForm' = r.sessionForm
           /\ error' = r.error
           /\ nextId' = IF r.created THEN nextId + 1 ELSE nextId
           /\ UNCHANGED <<now, tz, dst>>
           /\ Commit

\* The session form's select is set to one of its options.
SelectBook ==
    \E id \in BookIds(state) :
        /\ sessionForm' = [ sessionForm EXCEPT !.bookId = id ]
        /\ UNCHANGED <<state, error, nextId, now, tz, dst>>
        /\ Commit

\* A book's progress slider is moved.
SetBookProgress ==
    \E id \in BookIds(state), value \in ProgressInputs :
        /\ state' = updateBookProgress(state, id, value)
        /\ sessionForm' = DefaultTargetEffect(state', sessionForm)
        /\ UNCHANGED <<error, nextId, now, tz, dst>>
        /\ Commit

\* A listed session's remove button is pressed.
RemoveSession ==
    \E id \in SessionIds(state) :
        /\ state' = removeSession(state, id)
        /\ sessionForm' = DefaultTargetEffect(state', sessionForm)
        /\ UNCHANGED <<error, nextId, now, tz, dst>>
        /\ Commit

ToggleCompleted ==
    /\ state' = toggleCompletedVisibility(state)
    /\ UNCHANGED <<sessionForm, error, nextId, now, tz, dst>>
    /\ Commit

\* A goal slider is moved.
UpdateGoal ==
    \E field \in GoalFields, value \in GoalInputs :
        /\ state' = updateGoal(state, field, value)
        /\ UNCHANGED <<sessionForm, error, nextId, now, tz, dst>>
        /\ Commit

Next ==
    \/ AddBook(BookForms, MaxIds)
    \/ LogSession(SessionForms, MaxIds)
    \/ SelectBook
    \/ SetBookProgress
    \/ RemoveSession

Spec == Init /\ [][Next]_vars

\* The same operations, with forms that fail validation among those submitted.
NextForms ==
    \/ AddBook(BookForms \cup InvalidBookForms, MaxFormIds)
    \/ LogSession(SessionForms \cup InvalidSessionForms, MaxFormIds)
    \/ SelectBook
    \/ SetBookProgress
    \/ RemoveSession
    \/ ToggleCompleted

SpecForms == Init /\ [][NextForms]_vars

\* Books and sessions only: no manual progress override.
NextLedger ==
    \/ AddBook(BookForms, MaxIds)
    \/ LogSession(SessionForms, MaxIds)
    \/ SelectBook
    \/ RemoveSession

SpecLedger == Init /\ [][NextLedger]_vars

\* The statistics, over session histories of one kind of book, at several
\* times of day in several zones.
InitStats ==
    /\ state = DEFAULT_STATE
    /\ sessionForm = [ bookId |-> EmptyId ]
    /\ error = null
    /\ nextId = 1
    /\ \E c \in Clocks :
          /\ now = BaseDay * DayLen + c[1]
          /\ tz = c[2]
    /\ dst = <<>>
    /\ Mounted

NextStats ==
    \/ AddBook(StatsBookForms, 1)
    \/ LogSession(StatsSessionForms, MaxStatsIds)
    \/ RemoveSession

SpecStats == InitStats /\ [][NextStats]_vars

\* The statistics in zones that change their clocks near the present.
InitZones ==
    /\ state = DEFAULT_STATE
    /\ sessionForm = [ bookId |-> EmptyId ]
    /\ error = null
    /\ nextId = 1
    /\ \E c \in ZoneClocks :
          /\ now = BaseDay * DayLen + c[1]
          /\ tz = c[2]
          /\ dst = c[3]
    /\ Mounted

SpecZones == InitZones /\ [][NextStats]_vars

\* Sessions of one book, under every date the date input can hold.
NextDates ==
    \/ AddBook(StatsBookForms, 1)
    \/ LogSession(DateSessionForms, MaxDateIds)
    \/ RemoveSession

SpecDates == Init /\ [][NextDates]_vars

\* The component as first rendered, before any effect has run, over a store
\* an earlier visit may have written.
InitStore ==
    /\ state = DEFAULT_STATE
    /\ sessionForm = [ bookId |-> EmptyId ]
    /\ error = null
    /\ nextId = FirstFreshId
    /\ now = BaseDay * DayLen + 12
    /\ tz = 0
    /\ dst = <<>>
    /\ hydrated = FALSE
    /\ storage \in StoredItems
    /\ phase = "mounted"
    /\ queued = <<>>

\* The hydration effect of the first commit reads the store and queues its
\* updates.
HydrationEffect ==
    /\ phase = "mounted"
    /\ queued' = HydrationUpdates(storage)
    /\ phase' = "read"
    /\ UNCHANGED <<state, sessionForm, error, nextId, now, tz, dst, hydrated, storage>>

\* The first commit's other effects run, with the values of the first render.
MountPersistenceEffect ==
    /\ phase = "read"
    /\ storage' = PersistenceEffect(hydrated, state, storage)
    /\ sessionForm' = DefaultTargetEffect(state, sessionForm)
    /\ phase' = "queued"
    /\ UNCHANGED <<state, error, nextId, now, tz, dst, hydrated, queued>>

\* The queued updates are applied and the component renders again.
HydratedRender ==
    /\ phase = "queued"
    /\ state' = ApplyUpdates(queued, "state", state)
    /\ hydrated' = ApplyUpdates(queued, "hydrated", hydrated)
    /\ queued' = <<>>
    /\ phase' = "rendered"
    /\ UNCHANGED <<sessionForm, error, nextId, now, tz, dst, storage>>

\* The effects of that render run.
HydratedRenderEffects ==
    /\ phase = "rendered"
    /\ storage' = PersistenceEffect(hydrated, state, storage)
    /\ sessionForm' = DefaultTargetEffect(state, sessionForm)
    /\ phase' = "ready"
    /\ UNCHANGED <<state, error, nextId, now, tz, dst, hydrated, queued>>

NextStore ==
    \/ HydrationEffect
    \/ MountPersistenceEffect
    \/ HydratedRender
    \/ HydratedRenderEffects
    \/ AddBook(StoreBookForms, MaxStoreIds)
    \/ LogSession(StoreSessionForms, MaxStoreIds)
    \/ SelectBook
    \/ SetBookProgress
    \/ RemoveSession
    \/ ToggleCompleted
    \/ UpdateGoal

SpecStore == InitStore /\ [][NextStore]_vars

\* The effects of a commit are run: none stays pending for ever.
SpecStoreLive ==
    /\ SpecStore
    /\ WF_vars(HydrationEffect)
    /\ WF_vars(MountPersistenceEffect)
    /\ WF_vars(HydratedRender)
    /\ WF_vars(HydratedRenderEffects)

-----------------------------------------------------------------------------
(* Properties.  Each handler is a function of the state it runs in, so a     *)
(* statement about one operation is stated over every reachable state and    *)
(* every sampled input, through the handler itself.                          *)

TitleSamples == { <<>>, <<" ", " ">>, <<" ", "a", " ">> }
TotalPagesSamples == { <<"x">>, <<"0">>, <<"-", "5">>, <<"1">>, <<" ", "3", ".", "5">> }
PagesSamples == { <<"x">>, <<"0">>, <<"-", "1">>, <<"1">>, <<" ", "2">>, <<"3">> }
MinutesSamples == { <<>>, <<"0">>, <<"7">> }
DateSamples == { <<BaseDay - 1>>, <<>> }

IsPositive(v) == ~IsNaN(v) /\ v[1] > 0

NonBlank(text) == \E i \in 1..Len(text) : text[i] # " "

\* The samples that hold what the forms ask for, and those that do not.
GoodTitles == { t \in TitleSamples : NonBlank(t) }
BadTitles == TitleSamples \ GoodTitles
GoodTotalPages == { t \in TotalPagesSamples : IsPositive(parseInt(t)) }
BadTotalPages == TotalPagesSamples \ GoodTotalPages
GoodPages == { t \in PagesSamples : IsPositive(parseInt(t)) }
BadPages == PagesSamples \ GoodPages
GoodMinutes == { t \in MinutesSamples : IsPositive(parseInt(t)) }
BadMinutes == MinutesSamples \ GoodMinutes

Books == SeqToSet(state.books)
Sessions == SeqToSet(state.sessions)

BookOf(st, id) == booksById(st, id)

\* The status the data model assigns to a page count.
StatusOfPage(book) ==
    IF book.currentPage >= book.totalPages THEN "completed"
    ELSE IF book.currentPage = 0 THEN "not-started"
    ELSE "in-progress"

\* The successful outcomes of logging pagesText pages against book id.
LogOutcomes(id, date, pagesText) ==
    { r \in handleSessionSubmit(state, [sessionForm EXCEPT !.bookId = id],
                                date, pagesText, <<"7">>, nextId) : r.created }

\* The session a successful outcome created.
CreatedSession(r) == FindSession(r.state, nextId)

\* C1: every book's status is the one its page count determines: completed
\* exactly when currentPage >= totalPages, not-started exactly when
\* currentPage = 0, in-progress otherwise.
C1_StatusMatchesPage ==
    \A b \in Books : b.status = StatusOfPage(b)

\* C2: logging a session and at once removing the session created restores
\* the book's currentPage to its value before the log.
C2_LogThenRemoveRestores ==
    \A b \in Books : \A pagesText \in GoodPages : \A date \in DateSamples :
        \A r \in LogOutcomes(b.id, date, pagesText) :
            BookOf(removeSession(r.state, nextId), b.id).currentPage
                = b.currentPage

\* The sum of the stored pagesRead of the sessions of book id.
RECURSIVE BookSessionPages(_, _)
BookSessionPages(list, id) ==
    IF list = <<>> THEN 0
    ELSE (IF Head(list).bookId = id THEN Head(list).pagesRead ELSE 0)
            + BookSessionPages(Tail(list), id)

\* C3: without manual overrides, each book's currentPage is the sum of the
\* stored pagesRead of its sessions.
C3_PageIsSessionSum ==
    \A b \in Books : b.currentPage = BookSessionPages(state.sessions, b.id)

\* C4: the pagesRead a log stores is at most the pages that remained when
\* the book had pages left, and the entered value when it had none.
C4_StoredPagesClamped ==
    \A b \in Books : \A pagesText \in GoodPages : \A date \in DateSamples :
        \A r \in LogOutcomes(b.id, date, pagesText) :
            IF b.currentPage < b.totalPages
            THEN CreatedSession(r).pagesRead <= b.totalPages - b.currentPage
            ELSE CreatedSession(r).pagesRead = parseInt(pagesText)[1]

\* The spec's example: 50 pages logged at page 90 of 100.
ExampleBook ==
    [ id |-> 1, title |-> <<"a">>, author |-> <<"b">>, totalPages |-> 100,
      currentPage |-> 90, status |-> "in-progress", startedAt |-> <<BaseDay>> ]

\* C5: a successful log leaves the owning book at
\* min(currentPage + pagesRead, totalPages), and completed at totalPages when
\* pagesRead exceeds the pages that remained.
C5_LogAdvancesToMin ==
    /\ \A b \in Books : \A pagesText \in GoodPages : \A date \in DateSamples :
          \A r \in LogOutcomes(b.id, date, pagesText) :
             LET entered == parseInt(pagesText)[1]
                 after == BookOf(r.state, b.id)
             IN /\ after.currentPage
                      = Min(b.currentPage + entered, b.totalPages)
                /\ entered > b.totalPages - b.currentPage
                      => /\ after.currentPage = b.totalPages
                         /\ after.status = "completed"
    /\ LET after == SessionBook(ExampleBook, clampedPages(ExampleBook, 50))
       IN after.currentPage = 100 /\ after.status = "completed"

\* A book completed by a session of more pages than the book has.
C5_Witness ==
    \E b \in Books : \E s \in Sessions :
        /\ s.bookId = b.id
        /\ s.pagesRead > b.totalPages
        /\ b.currentPage = b.totalPages
        /\ b.status = "completed"

\* C6: every book's currentPage is an integer between 0 and totalPages.
C6_PageInRange ==
    \A b \in Books :
        b.currentPage \in Int /\ 0 <= b.currentPage /\ b.currentPage <= b.totalPages

\* A book a progress value below 0 was applied to (page 0, yet in progress),
\* beside a book whose sessions outnumber its pages.
C6_Witness ==
    /\ \E b \in Books : b.currentPage = 0 /\ b.status = "in-progress"
    /\ \E b \in Books : \E s \in Sessions :
          s.bookId = b.id /\ s.pagesRead > b.totalPages

-----------------------------------------------------------------------------
(* Statistics *)

\* Today is the day todayIso() names.
Today == todayIso[1]

\* The day numbers of the sessions whose date parses.
LoggedDays == { d[1] : d \in { x \in SessionDays(state) : x # <<>> } }

\* The length of the run of consecutive logged days that ends on day d.
RunEndingOn(d) ==
    CHOOSE k \in 0..Cardinality(LoggedDays) :
        /\ \A i \in 0..(k - 1) : (d - i) \in LoggedDays
        /\ (d - k) \notin LoggedDays

ExpectedStreak ==
    IF Today \in LoggedDays THEN RunEndingOn(Today)
    ELSE IF (Today - 1) \in LoggedDays THEN RunEndingOn(Today - 1)
    ELSE 0

\* C7: the streak is the run of consecutive logged days ending today, or
\* ending yesterday when today has no session, and 0 when neither has one;
\* today, today-1, today-2 give 3; today-1, today-2 give 2; today-3 gives 0.
C7_StreakIsRun ==
    /\ streak(state) = ExpectedStreak
    /\ LoggedDays = { Today, Today - 1, Today - 2 } => streak(state) = 3
    /\ LoggedDays = { Today - 1, Today - 2 } => streak(state) = 2
    /\ LoggedDays = { Today - 3 } => streak(state) = 0

\* Sessions yesterday and the day before, none today: the grace step.
C7_Witness ==
    /\ LoggedDays = { Today - 1, Today - 2 }
    /\ streak(state) = 2

\* The streak loop with its passes told apart: the days counted, the grace
\* steps taken and the passes made, the last one included.
RECURSIVE StreakWalk(_, _, _, _, _)
StreakWalk(days, current, counter, graces, passes) ==
    IF IsoDate(current) \in days
    THEN StreakWalk(days, LocalDaysBack(current, 1), counter + 1, graces,
                    passes + 1)
    ELSE IF counter = 0 /\ IsoDate(current - DayLen) \in days
    THEN StreakWalk(days, LocalDaysBack(current, 1), counter, graces + 1,
                    passes + 1)
    ELSE [ counter |-> counter, graces |-> graces, passes |-> passes + 1 ]

\* C21: the streak's walk back ends: it makes no more passes than there are
\* session dates, a grace step and a last pass; it takes the grace step at
\* most once; and the count is at most the number of distinct session dates.
C21_StreakWalkBounded ==
    /\ streak(state) <= uniqueDays(state)
    /\ Len(state.sessions) > 0 =>
          LET walk == StreakWalk(SessionDays(state), now, 0, 0, 0)
          IN /\ walk.counter = streak(state)
             /\ walk.graces <= 1
             /\ walk.passes <= uniqueDays(state) + 2

\* The session's date lies in [today - 6, today].
InWeekWindow(session) ==
    /\ session.date # <<>>
    /\ Today - 6 <= session.date[1]
    /\ session.date[1] <= Today

RECURSIVE WindowSum(_, _)
WindowSum(list, field) ==
    IF list = <<>> THEN 0
    ELSE (IF InWeekWindow(Head(list)) THEN Head(list)[field] ELSE 0)
            + WindowSum(Tail(list), field)

\* C8: minutesThisWeek and pagesThisWeek sum exactly the sessions dated in
\* [today - 6, today].
C8_WeekSumsOverWindow ==
    /\ minutesThisWeek(state) = WindowSum(state.sessions, "minutes")
    /\ pagesThisWeek(state) = WindowSum(state.sessions, "pagesRead")

-----------------------------------------------------------------------------
(* Validation *)

\* C9: the book form is accepted exactly when title and author are not
\* blank and the pages entered are a positive number (0 and -5 rejected, 1
\* accepted); the book created starts at page 0, not started, at the head of
\* the books, and the earlier books, the sessions and the preferences stay.
C9_AddBookContract ==
    /\ \A title \in GoodTitles, author \in GoodTitles :
          \A totalPagesText \in GoodTotalPages :
             LET r == handleBookSubmit(state, sessionForm, title, author,
                                       totalPagesText, nextId)
             IN /\ r.created
                /\ Head(r.state.books).currentPage = 0
                /\ Head(r.state.books).status = "not-started"
                /\ Head(r.state.books).totalPages = parseInt(totalPagesText)[1]
                /\ Head(r.state.books).id \notin BookIds(state)
                /\ Tail(r.state.books) = state.books
                /\ r.state.sessions = state.sessions
                /\ r.state.preferences = state.preferences
    /\ \A title \in TitleSamples, author \in TitleSamples :
          \A totalPagesText \in TotalPagesSamples :
             (title \in BadTitles \/ author \in BadTitles
                 \/ totalPagesText \in BadTotalPages)
                => ~handleBookSubmit(state, sessionForm, title, author,
                                     totalPagesText, nextId).created
    /\ { <<"0">>, <<"-", "5">> } \subseteq BadTotalPages
    /\ <<"1">> \in GoodTotalPages

\* A fresh book at the head of the books, before a book already read in.
C9_Witness ==
    /\ Len(state.books) >= 2
    /\ state.books[1].currentPage = 0
    /\ state.books[1].status = "not-started"
    /\ state.books[2].currentPage > 0
    /\ Len(state.sessions) > 0

\* The ids a session form may hold: none, each book, and a book that is gone.
TargetSamples == { EmptyId } \cup BookIds(state) \cup { nextId + 1 }

\* C10: a book or session form that fails validation (blank title or author,
\* pages not positive, a target that is no book, pages or minutes read not
\* positive) leaves books, sessions and preferences as they were and sets a
\* message.
C10_FailureChangesNothing ==
    /\ \A title \in TitleSamples, author \in TitleSamples :
          \A totalPagesText \in TotalPagesSamples :
             (title \in BadTitles \/ author \in BadTitles
                 \/ totalPagesText \in BadTotalPages)
                => LET r == handleBookSubmit(state, sessionForm, title, author,
                                             totalPagesText, nextId)
                   IN r.state = state /\ r.error # null
    /\ \A target \in TargetSamples :
          \A pagesText \in PagesSamples, minutesText \in MinutesSamples :
             (target \notin BookIds(state) \/ pagesText \in BadPages
                 \/ minutesText \in BadMinutes)
                => \A r \in handleSessionSubmit(state, [ bookId |-> target ],
                                                todayIso, pagesText,
                                                minutesText, nextId) :
                      r.state = state /\ r.error # null

\* A session form was refused while books and sessions exist.
C10_Witness ==
    /\ error = "Pages read must be a positive number."
    /\ Len(state.books) > 0
    /\ Len(state.sessions) > 0

-----------------------------------------------------------------------------
(* The store *)

\* The value of key in the object fields, or fallback when it has no such key.
FieldOr(fields, key, fallback) ==
    IF key \in DOMAIN fields THEN fields[key] ELSE fallback

\* The state the data model asks for on loading item: the default state
\* unless item is the text of an object; the object's books and sessions
\* otherwise, and its preferences, each with the default where it is missing.
ExpectedLoad(item) ==
    IF item.kind # "json" \/ item.value.type # "object" THEN DEFAULT_STATE
    ELSE LET fields == item.value.fields
             prefs == FieldOr(fields, "preferences", <<>>)
         IN [ books |-> FieldOr(fields, "books", <<>>),
              sessions |-> FieldOr(fields, "sessions", <<>>),
              preferences |->
                [ weeklyMinutesGoal |->
                      FieldOr(prefs, "weeklyMinutesGoal", DefaultWeeklyMinutesGoal),
                  dailyPagesGoal |->
                      FieldOr(prefs, "dailyPagesGoal", DefaultDailyPagesGoal),
                  showCompleted |-> FieldOr(prefs, "showCompleted", TRUE) ] ]

\* Once the component has rendered what was loaded (the store still holds
\* the item found), it is hydrated, shows no error and holds the state the
\* item stands for.
LoadedAsExpected ==
    phase = "rendered"
        => /\ hydrated
           /\ error = null
           /\ state = ExpectedLoad(storage)

\* C11: loading never ends in an error: an absent key or unparseable text
\* gives the default state, an object lacking preferences or preference
\* fields gives its books and sessions with the defaults filled in, and
\* hydration completes in every case.
C11_LoadFillsDefaults == []LoadedAsExpected /\ <>hydrated

\* A stored state whose preferences lack the goals has been loaded.
C11_Witness ==
    /\ phase = "rendered"
    /\ storage.kind = "json" /\ storage.value.type = "object"
    /\ "preferences" \in DOMAIN storage.value.fields
    /\ "weeklyMinutesGoal" \notin DOMAIN storage.value.fields.preferences
    /\ state.preferences.weeklyMinutesGoal = DefaultWeeklyMinutesGoal
    /\ state.preferences.showCompleted = FALSE
    /\ state.books = <<StoredBook>>

\* C12: once hydrated, each mutation (AddBook, LogSession, RemoveSession,
\* SetBookProgress, SetPreference) is followed by a write, so that with no
\* effect pending the item in the store is the serialization of the state.
C12_StoreMirrorsState ==
    phase = "ready" => hydrated /\ storage = stringify(state)

\* A loaded state that a log, a goal change and a toggle have since changed.
C12_Witness ==
    /\ phase = "ready"
    /\ Len(state.sessions) >= 2
    /\ state.preferences.weeklyMinutesGoal = 60
    /\ state.preferences.dailyPagesGoal = 10
    /\ state.preferences.showCompleted
    /\ storage = stringify(state)

-----------------------------------------------------------------------------
(* Frames *)

\* The ids that name no session: the empty one, those of books, those of
\* sessions removed, and one not yet handed out.
AbsentSessionIds == (EmptyId..nextId) \ SessionIds(state)

\* C13: removeSession with an id that names no session changes neither
\* books nor sessions nor preferences, and raises no error.
C13_RemoveAbsentIsNoOp ==
    \A id \in AbsentSessionIds : removeSession(state, id) = state

\* A session has been removed and others remain on a book read in: removing
\* the same id again is the no-op.
C13_Witness ==
    /\ \E id \in 1..(nextId - 1) : id \notin SessionIds(state) \cup BookIds(state)
    /\ Len(state.sessions) > 0
    /\ \E b \in Books : b.currentPage > 0
    /\ error = null

-----------------------------------------------------------------------------
(* Session order and averages *)

\* Date strings in the order of their text: the empty string is below every
\* date.
DateAtLeast(a, b) == b = <<>> \/ (a # <<>> /\ a[1] >= b[1])

\* C14: the sessions are in descending order of date: each session's date
\* is at least the date of the session after it.
C14_SessionsSortedByDate ==
    \A i \in 1..(Len(state.sessions) - 1) :
        DateAtLeast(state.sessions[i].date, state.sessions[i + 1].date)

\* C15: the statistics never divide by zero: minutesPerPage is 0 when no
\* page is read, averageDailyPages is 0 when no page is read or totalDays is
\* 0, and totalDays is 0 only when no session has a date that parses and at
\* least 1 otherwise.
C15_NoDivisionByZero ==
    /\ ~IsNaN(minutesPerPage(state))
    /\ ~IsNaN(averageDailyPages(state))
    /\ totalPagesRead(state) = 0 => minutesPerPage(state) = <<0>>
    /\ (totalPagesRead(state) = 0 \/ totalDays(state) = 0)
          => averageDailyPages(state) = <<0>>
    /\ IF \E s \in Sessions : s.date # <<>>
       THEN totalDays(state) >= 1
       ELSE totalDays(state) = 0

\* Pages read in sessions none of which has a date: no day to average over.
C15_Witness ==
    /\ Len(state.sessions) >= 2
    /\ \A s \in Sessions : s.date = <<>>
    /\ totalPagesRead(state) > 0
    /\ totalDays(state) = 0
    /\ averageDailyPages(state) = <<0>>
    /\ minutesPerPage(state) = <<70>>

\* C19: the store is not written while hydrated is false: an item found at
\* startup is not replaced by the default state before it has been loaded.
C19_NoWriteBeforeHydrated ==
    [][storage' # storage => hydrated]_vars

\* The first commit's persistence effect has run over a stored state, which
\* is still in the store and not yet in memory.
C19_Witness ==
    /\ phase = "queued"
    /\ ~hydrated
    /\ state = DEFAULT_STATE
    /\ storage = stringify([ books |-> <<StoredBook>>,
                             sessions |-> <<StoredSession>>,
                             preferences |-> StoredPreferences ])

GoalSamples == { NaN, <<-5>>, <<0>>, <<45>>, <<60>> }

\* a and b differ at most in the preference field.
SameButPreference(a, b, field) ==
    /\ a.books = b.books
    /\ a.sessions = b.sessions
    /\ DOMAIN a.preferences = DOMAIN b.preferences
    /\ \A f \in DOMAIN a.preferences \ { field } :
          a.preferences[f] = b.preferences[f]

\* C16: a goal set to a value that is not a positive number changes
\* nothing; a positive value changes that goal alone; the toggle flips
\* showCompleted; books, sessions and the other preferences stay.
C16_PreferenceFrame ==
    /\ \A field \in GoalFields : \A value \in GoalSamples :
          LET after == updateGoal(state, field, value)
          IN IF IsPositive(value)
             THEN /\ after.preferences[field] = value[1]
                  /\ SameButPreference(after, state, field)
             ELSE after = state
    /\ LET after == toggleCompletedVisibility(state)
       IN /\ after.preferences.showCompleted = ~state.preferences.showCompleted
          /\ SameButPreference(after, state, "showCompleted")

\* One goal moved and completed books hidden, over books and sessions.
C16_Witness ==
    /\ phase = "ready"
    /\ state.preferences.weeklyMinutesGoal = 60
    /\ state.preferences.dailyPagesGoal = DefaultDailyPagesGoal
    /\ state.preferences.showCompleted = FALSE
    /\ Len(state.books) > 0
    /\ Len(state.sessions) > 0

\* C20: removeSession run twice for one session by the handler of one
\* render subtracts the session's pagesRead from its book once: the second
\* run, applied to the state the first left, changes no book.
C20_SecondRemoveChangesNoBook ==
    \A id \in SessionIds(state) :
        LET first == removeSessionIn(state, state, id)
            second == removeSessionIn(state, first, id)
        IN second.books = first.books

ProgressSamples == -2..4

\* The ids a progress slider may name: each book, and ids of no book.
ProgressTargets == BookIds(state) \cup { EmptyId, nextId }

\* The book differs from before at most in currentPage and status.
SameButProgress(after, before) ==
    [ after EXCEPT !.currentPage = 0, !.status = "" ]
        = [ before EXCEPT !.currentPage = 0, !.status = "" ]

\* C17: updateBookProgress sets the book named to newPage brought into
\* 0..totalPages and changes nothing else but that book's status: the other
\* books, the sessions and the preferences stay, and an id of no book
\* changes nothing.
C17_ProgressFrame ==
    \A id \in ProgressTargets : \A newPage \in ProgressSamples :
        LET after == updateBookProgress(state, id, newPage)
        IN /\ after.sessions = state.sessions
           /\ after.preferences = state.preferences
           /\ Len(after.books) = Len(state.books)
           /\ \A i \in 1..Len(state.books) :
                 IF state.books[i].id = id
                 THEN /\ after.books[i].currentPage =
                            (IF newPage < 0 THEN 0
                             ELSE IF newPage > state.books[i].totalPages
                             THEN state.books[i].totalPages
                             ELSE newPage)
                      /\ SameButProgress(after.books[i], state.books[i])
                 ELSE after.books[i] = state.books[i]
           /\ id \notin BookIds(state) => after = state

\* A book moved by its slider alone, beside a book with a session.
C17_Witness ==
    \E b, c \in Books :
        /\ b.id # c.id
        /\ b.currentPage > 0
        /\ \A s \in Sessions : s.bookId = c.id
        /\ Len(state.sessions) > 0
        /\ c.currentPage # b.currentPage

-----------------------------------------------------------------------------
(* The session form's target *)

\* C18: a book form accepted makes the new book the session form's target
\* only when no target is selected; a selected target that names a book is
\* kept.
C18_AddBookKeepsTarget ==
    \A form \in BookForms :
        LET r == handleBookSubmit(state, sessionForm, form.title, form.author,
                                  form.totalPages, nextId)
        IN r.created =>
              IF sessionForm.bookId = EmptyId
              THEN r.sessionForm.bookId = nextId
              ELSE sessionForm.bookId \in BookIds(state)
                      => r.sessionForm.bookId = sessionForm.bookId

=============================================================================
